---- MODULE Spec2Model ----
(***************************************************************************)
(* Model of reference_implementation/tumblebit/__init__.py: the ctypes     *)
(* binding of LibreSSL's BIGNUM / RSA / ECDSA interface and the helpers    *)
(* BN_num_bytes, BNToBin, BinToBN, _free_bn, _check_res_void_p and         *)
(* _print_ssl_error.                                                       *)
(*                                                                         *)
(* A native pointer is a natural number, NULL is 0.  A Python value that   *)
(* may be None is a record [isNone, v].  A byte string is a sequence of    *)
(* numbers in 0..255.                                                      *)
(***************************************************************************)
EXTENDS Integers, Sequences, FiniteSets, TLC

\* ------------------------------------------------------------------ bounds
MaxX == 300
MaxWidth == 3
MaxCalls == 5
MaxLen == 2
MaxViews == 2
MaxBlanks == 1
MaxNullFrees == 6
MaxPrime == 11
MaxExp == 7

\* --------------------------------------------------------------- variables
VARIABLES
    \* BNToBin: its arguments, locals and result
    cpc, bn, size, nbytes, offset, ret, data, oob, encoded,
    \* the native engine: error queue, call counter, BIGNUM heap
    errq, ncalls, allocated, frees, bnval,
    \* what the Python caller holds / saw last
    owned, decoded, raised, pending, nativeFailed,
    \* one ECDSA signature structure and the Python objects laid over it
    sig, sigFrees, views, made, blanks, nullFrees,
    \* one blind RSA operation
    bpc, rsa, dir, factor, blinding, msg, f

codecVars == <<cpc, bn, size, nbytes, offset, ret, data, oob, encoded>>
nativeVars == <<errq, ncalls, allocated, frees, bnval, owned, decoded, raised, pending,
                nativeFailed>>
sigVars == <<sig, sigFrees, views, made, blanks, nullFrees>>
blindVars == <<bpc, rsa, dir, factor, blinding, msg, f>>
vars == <<cpc, bn, size, nbytes, offset, ret, data, oob, encoded,
          errq, ncalls, allocated, frees, bnval, owned, decoded, raised, pending,
          nativeFailed,
          sig, sigFrees, views, made, blanks, nullFrees,
          bpc, rsa, dir, factor, blinding, msg, f>>

\* ------------------------------------------------------ Python / ctypes glue
NULL == 0
PyNone == [isNone |-> TRUE, v |-> 0]
PyInt(i) == [isNone |-> FALSE, v |-> i]

\* restype = ctypes.c_void_p: a NULL result reaches Python as None, any other
\* pointer as an int.
restype_c_void_p(p) == IF p = NULL THEN PyNone ELSE PyInt(p)

\* ctypes.c_void_p(val): a new c_void_p object, which is never None itself;
\* c_void_p(None) holds the NULL pointer.
c_void_p(val) == [isNone |-> FALSE, v |-> IF val.isNone THEN NULL ELSE val.v]

\* Python's "val == 0": None is not equal to 0.
PyEqZero(val) == (~val.isNone) /\ val.v = 0

\* ','.join(args) succeeds only when every item is a str.
JoinOK(args) == \A i \in 1..Len(args) : args[i] = "str"

NoError == [call |-> 0, func |-> "none"]
NoException == [type |-> "none", errno |-> NoError, by |-> 0]

\* ERR_get_error(): removes and returns the earliest entry of the queue,
\* 0 when the queue is empty.  The engine keeps one queue per thread; errq is
\* the queue of the calling thread.
ERR_get_error(q) ==
    IF q = <<>> THEN [errno |-> NoError, rest |-> q]
    ELSE [errno |-> Head(q), rest |-> Tail(q)]

\* _check_res_void_p(val, func, args), with the error queue q threaded through.
\* by: the id of the native call whose result is being checked.  The result
\* is the exception raised (if any), the queue left behind and the value
\* returned.
_check_res_void_p(val, args, q, by) ==
    IF PyEqZero(val)
    THEN LET e == ERR_get_error(q)
         IN IF JoinOK(args)
            THEN [exc |-> [type |-> "LibreSSLException", errno |-> e.errno, by |-> by],
                  q |-> e.rest, val |-> PyNone]
            ELSE [exc |-> [type |-> "TypeError", errno |-> NoError, by |-> by],
                  q |-> e.rest, val |-> PyNone]
    ELSE [exc |-> NoException, q |-> q, val |-> c_void_p(val)]

\* ------------------------------------------------------------ BIGNUM helpers
RECURSIVE BN_num_bits(_)
BN_num_bits(x) == IF x = 0 THEN 0 ELSE 1 + BN_num_bits(x \div 2)

BN_num_bytes_no_round(x) == BN_num_bits(x) \div 8
BN_num_bytes(x) == (BN_num_bits(x) + 7) \div 8

\* BN_bn2bin: the big-endian magnitude it writes; its return value is the
\* number of bytes written.
RECURSIVE BN_bn2bin(_)
BN_bn2bin(x) == IF x = 0 THEN <<>> ELSE Append(BN_bn2bin(x \div 256), x % 256)

\* BN_bin2bn: the value of a big-endian byte string.
RECURSIVE BN_bin2bn(_)
BN_bin2bn(s) ==
    IF s = <<>> THEN 0
    ELSE 256 * BN_bin2bn(SubSeq(s, 1, Len(s) - 1)) + s[Len(s)]

\* ctypes.create_string_buffer(size): size zero bytes.
create_string_buffer(sz) == [i \in 1..sz |-> 0]

\* The native write through ctypes.byref(data, offset): byte j of mag lands at
\* index offset + j of the buffer; bytes landing below index 1 are outside it.
byref_write(buf, off, mag) ==
    [buf |-> [i \in 1..Len(buf) |->
                 IF i - off \in 1..Len(mag) THEN mag[i - off] ELSE buf[i]],
     oob |-> IF off < 0 THEN SubSeq(mag, 1, IF -off < Len(mag) THEN -off ELSE Len(mag))
             ELSE <<>>]

NoResult == [kind |-> "unset", raw |-> <<>>]
ResNone == [kind |-> "None", raw |-> <<>>]
ResBytes(b) == [kind |-> "bytes", raw |-> b]
ResCrash == [kind |-> "crash", raw |-> <<>>]

BNArg(x) == [none |-> FALSE, val |-> x]
BNNone == [none |-> TRUE, val |-> 0]

\* ------------------------------------------------------------------ BNToBin
BNToBin(b, sz) ==
    /\ cpc = "idle"
    /\ bn' = b
    /\ size' = sz
    /\ IF b.none
       THEN /\ encoded' = ResNone
            /\ UNCHANGED <<nbytes, offset, ret, data, oob>>
       ELSE LET buf == create_string_buffer(sz)
                nb  == BN_num_bytes(b.val)
                off == sz - nb
                mag == BN_bn2bin(b.val)
                w   == byref_write(buf, off, mag)
                z   == [i \in 1..sz |-> IF i <= off THEN 0 ELSE w.buf[i]]
            IN /\ nbytes' = nb
               /\ offset' = off
               /\ ret' = Len(mag)
               /\ oob' = w.oob
               /\ IF Len(mag) = 0
                  THEN data' = w.buf /\ encoded' = ResNone
                  ELSE /\ data' = z
                       \* a write below the buffer is undefined behaviour: the
                       \* call returns data.raw[:size] or the process dies
                       /\ \/ encoded' = ResBytes(z)
                          \/ w.oob # <<>> /\ encoded' = ResCrash
    /\ cpc' = "encoded"
    /\ UNCHANGED <<nativeVars, sigVars, blindVars>>

\* ------------------------------------------------------------------ BinToBN
NextHandle(a) == Cardinality(a) + 1

Bin2bnArgs == <<"bytes", "int", "c_void_p">>

DecNone == [kind |-> "unset", h |-> NULL]
DecRaise == [kind |-> "raise", h |-> NULL]
DecBN(h) == [kind |-> "bn", h |-> h]
DecPyNone == [kind |-> "None", h |-> NULL]

BytesArg(b) == [none |-> FALSE, raw |-> b]
BytesNone == [none |-> TRUE, raw |-> <<>>]

\* One call BinToBN(s).  newOk / binOk: whether the native BN_new and
\* BN_bin2bn manage to allocate; a native failure returns NULL and appends
\* its entry to the error queue.
BinToBN(s, newOk, binOk) ==
    LET c1 == ncalls + 1
        h1 == IF newOk THEN NextHandle(allocated) ELSE NULL
        a1 == IF newOk THEN allocated \cup {h1} ELSE allocated
        q1 == IF newOk THEN errq ELSE Append(errq, [call |-> c1, func |-> "BN_new"])
        r1 == _check_res_void_p(restype_c_void_p(h1), <<>>, q1, c1)
        bnp == r1.val.v
        c2 == c1 + 1
        \* BN_bin2bn(s, len, ret): fills ret, or a BIGNUM of its own when
        \* ret is NULL
        target == IF bnp = NULL THEN NextHandle(a1) ELSE bnp
        p2 == IF binOk THEN target ELSE NULL
        a2 == IF binOk THEN a1 \cup {target} ELSE a1
        q2 == IF binOk THEN r1.q
              ELSE Append(r1.q, [call |-> c2, func |-> "BN_bin2bn"])
        r2 == _check_res_void_p(restype_c_void_p(p2), Bin2bnArgs, q2, c2)
        \* "ret is None"
        retIsNone == r2.val.isNone
        fresh(a) == [h \in a |-> IF h \in allocated THEN frees[h] ELSE 0]
        val0(a) == [h \in a |-> IF h \in allocated THEN bnval[h] ELSE 0]
    IN
    /\ ncalls + 2 <= MaxCalls
    /\ pending' = pending
    /\ nativeFailed' = (IF newOk THEN {} ELSE {"BN_new"}) \cup
                       (IF binOk \/ s.none THEN {} ELSE {"BN_bin2bn"})
    /\ IF r1.exc.type # "none"
       THEN \* BN_new's errcheck raised
            /\ raised' = r1.exc
            /\ decoded' = DecRaise
            /\ errq' = r1.q
            /\ ncalls' = c1
            /\ allocated' = a1
            /\ frees' = fresh(a1)
            /\ bnval' = val0(a1)
            /\ owned' = owned
       ELSE IF s.none
       THEN \* len(None) raises TypeError; bn goes out of scope
            /\ raised' = [type |-> "TypeError", errno |-> NoError, by |-> 0]
            /\ decoded' = DecRaise
            /\ errq' = r1.q
            /\ ncalls' = c1
            /\ allocated' = a1
            /\ frees' = fresh(a1)
            /\ bnval' = val0(a1)
            /\ owned' = owned
       ELSE /\ errq' = r2.q
            /\ ncalls' = c2
            /\ allocated' = a2
            /\ frees' = fresh(a2)
            /\ bnval' = [h \in a2 |-> IF binOk /\ h = target
                                      THEN BN_bin2bn(s.raw)
                                      ELSE val0(a2)[h]]
            /\ IF r2.exc.type # "none"
               THEN /\ raised' = r2.exc
                    /\ decoded' = DecRaise
                    /\ owned' = owned
               ELSE IF retIsNone
               THEN /\ raised' = NoException
                    /\ decoded' = DecPyNone
                    /\ owned' = owned
               ELSE \* return bn
                    /\ raised' = NoException
                    /\ decoded' = DecBN(bnp)
                    /\ owned' = IF bnp = NULL THEN owned ELSE owned \cup {bnp}

\* ------------------------------------------------------------ initial state
\* ECDSA_SIG_st: the two fields r and s of the native structure.  r and s are
\* "bn" (a live BIGNUM of the structure) or "null".
NoSig == [st |-> "unset", r |-> "null", s |-> "null"]

NoKey == [n |-> 0, e |-> 0, d |-> 0]
NoBlinding == [A |-> 0, Ai |-> 0, mod |-> 0]

Init ==
    /\ cpc = "idle"
    /\ bn = BNNone
    /\ size = 0
    /\ nbytes = 0
    /\ offset = 0
    /\ ret = 0
    /\ data = <<>>
    /\ oob = <<>>
    /\ encoded = NoResult
    /\ errq = <<>>
    /\ ncalls = 0
    /\ allocated = {}
    /\ frees = <<>>
    /\ bnval = <<>>
    /\ owned = {}
    /\ decoded = DecNone
    /\ raised = NoException
    /\ pending = 0
    /\ nativeFailed = {}
    /\ sig = NoSig
    /\ sigFrees = [c \in {"r", "s"} |-> 0]
    /\ views = 0
    /\ made = 0
    /\ blanks = 0
    /\ nullFrees = 0
    /\ bpc = "nokey"
    /\ rsa = NoKey
    /\ dir = "private"
    /\ factor = 0
    /\ blinding = NoBlinding
    /\ msg = 0
    /\ f = 0

Encode ==
    \E w \in 0..MaxWidth :
        \/ \E x \in 0..MaxX : BNToBin(BNArg(x), w)
        \/ BNToBin(BNNone, w)

\* BinToBN(BNToBin(x, w)): the caller passes on whatever BNToBin returned.
Decode ==
    /\ cpc = "encoded"
    /\ encoded.kind \in {"bytes", "None"}
    /\ \E newOk \in BOOLEAN, binOk \in BOOLEAN :
          BinToBN(IF encoded.kind = "None" THEN BytesNone ELSE BytesArg(encoded.raw),
                  newOk, binOk)
    /\ cpc' = "decoded"
    /\ UNCHANGED <<bn, size, nbytes, offset, ret, data, oob, encoded>>
    /\ UNCHANGED <<sigVars, blindVars>>

Next == Encode \/ Decode

Spec == Init /\ [][Next]_vars

\* ------------------------------------------------- properties of the codec
RECURSIVE Pow(_, _)
Pow(b, k) == IF k = 0 THEN 1 ELSE b * Pow(b, k - 1)

\* bit_length(x): the least b with x < 2^b.
BitLength(x) == CHOOSE b \in 0..32 : x < Pow(2, b) /\ (b = 0 \/ x >= Pow(2, b - 1))

\* ceil(b / 8): the least k with b <= 8k.
CeilDiv8(b) == CHOOSE k \in 0..8 : b <= 8 * k /\ (k = 0 \/ b > 8 * (k - 1))

\* the value a big-endian byte string denotes, as a positional sum
RECURSIVE Magnitude(_, _)
Magnitude(s, i) == IF i > Len(s) THEN 0 ELSE s[i] * Pow(256, Len(s) - i) + Magnitude(s, i + 1)

Encoded == cpc # "idle" /\ ~bn.none
Fits == BitLength(bn.val) <= 8 * size

\* C4: BN_num_bytes(x) is ceil(bit_length(x) / 8): 0 for x = 0, 1 for
\* 1 <= x <= 255, 2 for x = 256.
NumBytesIsCeil ==
    Encoded =>
        /\ nbytes = CeilDiv8(BitLength(bn.val))
        /\ (bn.val = 0 => nbytes = 0)
        /\ (bn.val \in 1..255 => nbytes = 1)
        /\ (bn.val = 256 => nbytes = 2)

NumBytesOf256 == cpc = "encoded" /\ ~bn.none /\ bn.val = 256 /\ nbytes = 2

\* C10: BNToBin(0, w) succeeds and returns exactly w bytes, all of them 0.
ZeroIsEncodable ==
    (Encoded /\ bn.val = 0) =>
        /\ encoded.kind = "bytes"
        /\ Len(encoded.raw) = size
        /\ \A i \in 1..size : encoded.raw[i] = 0

\* C3: when bit_length(x) > 8 * size, BNToBin fails with an EncodingError,
\* returns no byte string and writes nothing outside the buffer.
OversizeIsEncodingError ==
    (Encoded /\ ~Fits) => (encoded.kind = "EncodingError" /\ oob = <<>>)

\* C2: when bit_length(x) <= 8 * size, BNToBin returns exactly size bytes: the
\* last BN_num_bytes(x) are the big-endian magnitude of x, the bytes to the
\* left of it are 0.
IsPadded(raw, x, w) ==
    LET k == CeilDiv8(BitLength(x))
    IN /\ Len(raw) = w
       /\ \A i \in 1..(w - k) : raw[i] = 0
       /\ Magnitude(SubSeq(raw, w - k + 1, w), 1) = x
       /\ (k > 0 => raw[w - k + 1] # 0)

FixedWidthZeroPadded ==
    (Encoded /\ Fits) => (encoded.kind = "bytes" /\ IsPadded(encoded.raw, bn.val, size))

\* C1: when bit_length(x) <= 8 * size and no native call fails,
\* BinToBN(BNToBin(x, size)) succeeds and yields a BIGNUM of value x.
RoundTrip ==
    (cpc = "decoded" /\ ~bn.none /\ Fits /\ errq = <<>>) =>
        /\ decoded.kind = "bn"
        /\ decoded.h \in allocated
        /\ bnval[decoded.h] = bn.val

\* Sanity: away from x = 0 the codec pads and round-trips as documented.
RoundTripNonZero ==
    (cpc = "decoded" /\ ~bn.none /\ bn.val > 0 /\ Fits /\ errq = <<>>) =>
        /\ decoded.kind = "bn"
        /\ decoded.h \in allocated
        /\ bnval[decoded.h] = bn.val

PaddedNonZero ==
    (Encoded /\ bn.val > 0 /\ Fits) =>
        (encoded.kind = "bytes" /\ IsPadded(encoded.raw, bn.val, size))

\* ------------------------------------------- callers of the native engine
SomeBytes == {0, 1, 255}
ByteStrings == UNION {[1..n -> SomeBytes] : n \in 0..MaxLen}

CallBinToBN ==
    /\ \E newOk \in BOOLEAN, binOk \in BOOLEAN :
          \/ \E b \in ByteStrings : BinToBN(BytesArg(b), newOk, binOk)
          \/ BinToBN(BytesNone, newOk, binOk)
    /\ UNCHANGED <<codecVars, sigVars, blindVars>>

\* A native function declared with restype c_int and no errcheck (BN_mod_mul,
\* BN_mod_exp, ...): on failure it returns 0 and leaves its entries in the
\* error queue; the binding drains nothing.
IntCall ==
    /\ ncalls + 1 <= MaxCalls
    /\ ncalls' = ncalls + 1
    /\ \/ /\ UNCHANGED <<errq, pending>>
       \/ /\ errq' = Append(errq, [call |-> ncalls + 1, func |-> "BN_mod_mul"])
          /\ pending' = ncalls + 1
    /\ UNCHANGED <<allocated, frees, bnval, owned, decoded, raised, nativeFailed>>
    /\ UNCHANGED <<codecVars, sigVars, blindVars>>

\* _print_ssl_error(), called by the caller that saw a call fail.
_print_ssl_error ==
    /\ pending # 0
    /\ LET e == ERR_get_error(errq)
       IN /\ raised' = [type |-> "LibreSSLException", errno |-> e.errno, by |-> pending]
          /\ errq' = e.rest
    /\ pending' = 0
    /\ UNCHANGED <<ncalls, allocated, frees, bnval, owned, decoded, nativeFailed>>
    /\ UNCHANGED <<codecVars, sigVars, blindVars>>

\* _free_bn(x) on the handle BinToBN returned: x is a c_void_p object, so it
\* is not None and BN_free is called; BN_free(NULL) does nothing.
_free_bn ==
    /\ decoded.kind = "bn"
    /\ decoded' = DecNone
    /\ LET x == c_void_p(restype_c_void_p(decoded.h))
       IN IF x.isNone \/ x.v = NULL
          THEN UNCHANGED <<frees, owned>>
          ELSE /\ frees' = [frees EXCEPT ![x.v] = @ + 1]
               /\ owned' = owned \ {x.v}
    /\ UNCHANGED <<errq, ncalls, allocated, bnval, raised, pending, nativeFailed>>
    /\ UNCHANGED <<codecVars, sigVars, blindVars>>

NextNative == CallBinToBN \/ IntCall \/ _print_ssl_error \/ _free_bn

SpecNative == Init /\ [][NextNative]_vars

\* C6: when BN_new or BN_bin2bn returns NULL inside BinToBN, the caller gets
\* a failure carrying the engine's error code; no handle is returned and no
\* unrelated error is raised.
DecodeFailureReported ==
    (nativeFailed # {} /\ decoded.kind # "unset") =>
        /\ decoded.kind = "raise"
        /\ raised.type = "LibreSSLException"
        /\ raised.errno # NoError

\* C7: every BIGNUM allocated by BinToBN is held by the caller or has been
\* released exactly once.
NoHandleLost ==
    \A h \in allocated :
        /\ frees[h] <= 1
        /\ (h \in owned \/ frees[h] = 1)

\* C9: a reported error is the one the failing call produced, and once a call
\* has reported its failure none of its entries is left in the queue.
ErrorAttribution ==
    raised.type = "LibreSSLException" =>
        /\ raised.errno.call = raised.by
        /\ \A i \in 1..Len(errq) : errq[i].call # raised.by

\* ------------------------------------------------- the signature structure
\* BN_free(p) on a field of the structure: BN_free(NULL) does nothing.
BN_free_field(c, p) ==
    IF p = "null" THEN [free |-> [x \in {"r", "s"} |-> 0], null |-> 1]
    ELSE [free |-> [x \in {"r", "s"} |-> IF x = c THEN 1 ELSE 0], null |-> 0]

\* d2i_ECDSA_SIG: a new structure owning two new BIGNUMs, or NULL on
\* malformed input.
d2i_ECDSA_SIG ==
    /\ sig.st = "unset"
    /\ \/ sig' = [st |-> "live", r |-> "bn", s |-> "bn"]
       \/ sig' = [st |-> "null", r |-> "null", s |-> "null"]
    /\ UNCHANGED <<sigFrees, views, made, blanks, nullFrees>>
    /\ UNCHANGED <<codecVars, nativeVars, blindVars>>

\* ctypes.cast(sig, POINTER(ECDSA_SIG_st)).contents: a Python ECDSA_SIG_st
\* object laid over the native structure.
contents ==
    /\ sig.st = "live"
    /\ made < MaxViews
    /\ views' = views + 1
    /\ made' = made + 1
    /\ UNCHANGED <<sig, sigFrees, blanks, nullFrees>>
    /\ UNCHANGED <<codecVars, nativeVars, blindVars>>

\* ECDSA_SIG_st(): a Python-side structure, both fields None.
new_ECDSA_SIG_st ==
    /\ blanks < MaxBlanks
    /\ nullFrees + 2 * (blanks + 1) <= MaxNullFrees
    /\ blanks' = blanks + 1
    /\ UNCHANGED <<sig, sigFrees, views, made, nullFrees>>
    /\ UNCHANGED <<codecVars, nativeVars, blindVars>>

\* ECDSA_SIG_st.__del__ of an object laid over the native structure:
\* BN_free(self.r); BN_free(self.s).  The fields keep their pointers.  Once
\* the structure has been freed the reads are of freed memory: each may
\* yield the old pointer or NULL.
del_view ==
    /\ views > 0
    /\ \E rv \in {"bn", "null"}, sv \in {"bn", "null"} :
          /\ (sig.st = "live" => rv = sig.r /\ sv = sig.s)
          /\ LET fr == BN_free_field("r", rv)
                 fs == BN_free_field("s", sv)
             IN /\ sigFrees' = [c \in {"r", "s"} |-> sigFrees[c] + fr.free[c] + fs.free[c]]
                /\ nullFrees' = nullFrees + fr.null + fs.null
    /\ views' = views - 1
    /\ UNCHANGED <<sig, made, blanks>>
    /\ UNCHANGED <<codecVars, nativeVars, blindVars>>

\* ECDSA_SIG_st.__del__ of a Python-side structure: BN_free(None) twice.
del_blank ==
    /\ blanks > 0
    /\ blanks' = blanks - 1
    /\ nullFrees' = nullFrees + BN_free_field("r", "null").null
                              + BN_free_field("s", "null").null
    /\ UNCHANGED <<sig, sigFrees, views, made>>
    /\ UNCHANGED <<codecVars, nativeVars, blindVars>>

\* ECDSA_SIG_free(sig): the engine frees r, s and the structure.
ECDSA_SIG_free ==
    /\ sig.st = "live"
    /\ sig' = [sig EXCEPT !.st = "freed"]
    /\ sigFrees' = [c \in {"r", "s"} |->
                       sigFrees[c] + BN_free_field("r", sig.r).free[c]
                                   + BN_free_field("s", sig.s).free[c]]
    /\ UNCHANGED <<views, made, blanks, nullFrees>>
    /\ UNCHANGED <<codecVars, nativeVars, blindVars>>

NextSig ==
    d2i_ECDSA_SIG \/ contents \/ new_ECDSA_SIG_st \/ del_view \/ del_blank \/ ECDSA_SIG_free

SpecSig == Init /\ [][NextSig]_vars

\* C8: each of r and s of a signature structure is released exactly once:
\* never twice, and once when the structure and every object over it are gone.
SigReleasedOnce ==
    /\ \A c \in {"r", "s"} : sigFrees[c] <= 1
    /\ (sig.st = "freed" /\ views = 0) => \A c \in {"r", "s"} : sigFrees[c] = 1

\* ------------------------------------------------------------ RSA blinding
RECURSIVE gcd(_, _)
gcd(a, b) == IF b = 0 THEN a ELSE gcd(b, a % b)

mod_mul(a, b, n) == (a * b) % n

RECURSIVE mod_exp(_, _, _)
mod_exp(base, exp, n) ==
    IF exp = 0 THEN 1 % n ELSE (base * mod_exp(base, exp - 1, n)) % n

\* mod_inverse(a, n): defined when gcd(a, n) = 1.
mod_inverse(a, n) == CHOOSE x \in 0..(n - 1) : (a * x) % n = 1 % n

IsPrime(p) == p > 1 /\ \A k \in 2..(p - 1) : p % k # 0

\* RSA keys: n = p * q for distinct odd primes, e * d = 1 mod (p-1)(q-1).
Keys ==
    LET P == {p \in 3..MaxPrime : IsPrime(p)}
        cands == {t \in P \X P \X (3..MaxExp) \X (1..(MaxPrime * MaxPrime)) :
                     /\ t[1] < t[2]
                     /\ t[4] < (t[1] - 1) * (t[2] - 1)
                     /\ gcd(t[3], (t[1] - 1) * (t[2] - 1)) = 1
                     /\ (t[3] * t[4]) % ((t[1] - 1) * (t[2] - 1)) = 1}
    IN {[n |-> t[1] * t[2], e |-> t[3], d |-> t[4]] : t \in cands}

\* raw_op: input^exponent mod n with no padding; the private direction uses
\* d, the public one e.
raw_op(x, k, direction) ==
    mod_exp(x, IF direction = "private" THEN k.d ELSE k.e, k.n)

\* The power of r that blinds the input of raw_op: the exponent of the
\* opposite direction.
BlindingContext_new_plain(k, r, direction) ==
    [A |-> r % k.n, Ai |-> mod_inverse(r, k.n), mod |-> k.n]
BlindingContext_new(k, r, direction) ==
    [A |-> mod_exp(r, IF direction = "private" THEN k.e ELSE k.d, k.n),
     Ai |-> mod_inverse(r, k.n),
     mod |-> k.n]

blind(m, b) == mod_mul(m, b.A, b.mod)
unblind(x, b) == mod_mul(x, b.Ai, b.mod)

generate ==
    /\ bpc = "nokey"
    /\ \E k \in Keys, direction \in {"private", "public"} :
          /\ rsa' = k
          /\ dir' = direction
    /\ bpc' = "key"
    /\ UNCHANGED <<factor, blinding, msg, f>>
    /\ UNCHANGED <<codecVars, nativeVars, sigVars>>

\* new(key): a random unit r mod n (a non-invertible draw is retried).
NewBlinding ==
    /\ bpc = "key"
    /\ \E r \in 1..(rsa.n - 1) :
          /\ gcd(r, rsa.n) = 1
          /\ factor' = r
          /\ blinding' = BlindingContext_new(rsa, r, dir)
    /\ bpc' = "ready"
    /\ UNCHANGED <<rsa, dir, msg, f>>
    /\ UNCHANGED <<codecVars, nativeVars, sigVars>>

Blind ==
    /\ bpc = "ready"
    /\ \E m \in 0..(rsa.n - 1) :
          /\ msg' = m
          /\ f' = blind(m, blinding)
    /\ bpc' = "blinded"
    /\ UNCHANGED <<rsa, dir, factor, blinding>>
    /\ UNCHANGED <<codecVars, nativeVars, sigVars>>

RawOp ==
    /\ bpc = "blinded"
    /\ f' = raw_op(f, rsa, dir)
    /\ bpc' = "raw"
    /\ UNCHANGED <<rsa, dir, factor, blinding, msg>>
    /\ UNCHANGED <<codecVars, nativeVars, sigVars>>

Unblind ==
    /\ bpc = "raw"
    /\ f' = unblind(f, blinding)
    /\ bpc' = "unblinded"
    /\ UNCHANGED <<rsa, dir, factor, blinding, msg>>
    /\ UNCHANGED <<codecVars, nativeVars, sigVars>>

NextBlind == generate \/ NewBlinding \/ Blind \/ RawOp \/ Unblind

SpecBlind == Init /\ [][NextBlind]_vars

====
